---- MODULE Spec2Model ----
(***************************************************************************)
(* Model of the middleman's IPDL message forwarding                        *)
(* (toolkit/recordreplay/ipc, the forwarding protocol file).               *)
(*                                                                         *)
(* Two threads take part: the main thread, on which gChildProtocol (the    *)
(* UI-facing endpoint, mSide == ChildSide) receives messages from the UI   *)
(* process, and the forwarding message loop thread, on which               *)
(* gParentProtocol (the worker-facing endpoint, mSide == ParentSide)       *)
(* receives messages from the recording process.  The threads share        *)
(* gMonitor, gMainThreadRunnables and gPostedProcessMainThreadRunnables.   *)
(* Every step that the code runs without gMonitor and that touches state   *)
(* the other thread can read is a separate action.                         *)
(***************************************************************************)
EXTENDS Naturals, Sequences, FiniteSets

\* ------------------------------------------------------------------ bounds

\* Messages (asynchronous and synchronous together) the two channels deliver.
MaxMsgs == 2
\* Channel error / close callbacks the two channels deliver.
MaxErrors == 2
\* Messages delivered in the runs of the fair specification.
MaxLiveMsgs == 2
\* Channel error / close callbacks delivered in those runs.
MaxLiveErrors == 1

\* ------------------------------------------------------------- vocabulary

NULL == "nullptr"
ChildSide == "ChildSide"
ParentSide == "ParentSide"

\* The two endpoints are named by the global that holds them; mSide is the
\* constructor argument.
mSide(p) == IF p = "gChildProtocol" THEN ChildSide ELSE ParentSide

MainThread == "main"
ForwardingThread == "forwarding"
Threads == {MainThread, ForwardingThread}

\* The endpoint whose MaybeSendSyncMessage a thread runs: the main thread
\* runs gParentProtocol's (posted through DispatchToMainThread or called by
\* MaybeHandleForwardedMessages), the forwarding thread gChildProtocol's.
SyncProtocolOf(t) == IF t = MainThread THEN "gParentProtocol" ELSE "gChildProtocol"

\* ---------------------------------------------------------- message types

DualDeliveryTypes ==
  { "PContent::Msg_ConstructBrowser", "PContent::Msg_RegisterBrowsingContextGroup",
    "PContent::Msg_RegisterChrome", "PContent::Msg_SetXPCOMProcessAttributes",
    "PContent::Msg_UpdateSharedData", "PContent::Msg_SetProcessSandbox",
    "PBrowser::Msg_InitRendering", "PBrowser::Msg_SetDocShellIsActive",
    "PBrowser::Msg_RenderLayers", "PBrowser::Msg_UpdateDimensions",
    "PBrowser::Msg_LoadURL", "PBrowser::Msg_Show",
    "PBrowser::Msg_LoadRemoteScript", "PBrowser::Msg_AsyncMessage",
    "PBrowser::Msg_Destroy" }

\* PBrowserStart..PBrowserEnd: the dual-delivery PBrowser messages and one
\* PBrowser message outside the list.
PBrowserRange ==
  { "PBrowser::Msg_InitRendering", "PBrowser::Msg_SetDocShellIsActive",
    "PBrowser::Msg_RenderLayers", "PBrowser::Msg_UpdateDimensions",
    "PBrowser::Msg_LoadURL", "PBrowser::Msg_Show",
    "PBrowser::Msg_LoadRemoteScript", "PBrowser::Msg_AsyncMessage",
    "PBrowser::Msg_Destroy", "PBrowser::Msg_Activate" }

LocalOnlyTypes == { "PContent::Msg_InitRendering", "PContent::Msg_Shutdown" }

PCompositorBridgeRange == { "PCompositorBridge::Msg_DidComposite" }

PWindowGlobalRange == { "PWindowGlobal::Msg_LoadURIInChild" }

\* The ids of the browsers ContentChild manages, and of the actors Lookup finds.
ManagedPBrowserChild == {1}
LookupActors == {1, 2}

\* `new Message()`: a message nothing has been copied into.
EmptyMessage ==
  [id |-> 0, type |-> "none", routing_id |-> 0, fromMiddleman |-> FALSE,
   payload |-> "empty"]

\* A null Message*.
NullMessage ==
  [id |-> 0, type |-> NULL, routing_id |-> 0, fromMiddleman |-> FALSE,
   payload |-> NULL]

\* The messages the UI process sends to gChildProtocol: for each branch of
\* HandleMessageInMiddleman one that takes it and, where the branch tests
\* the routing id or the origin, one that fails the test.
Input(ty, r, mm) ==
  [type |-> ty, routing_id |-> r, fromMiddleman |-> mm, payload |-> "bytes"]

ChildInputs ==
  { Input("PContent::Msg_ConstructBrowser", 3, FALSE),
    Input("PBrowser::Msg_LoadURL", 1, FALSE),
    Input("PBrowser::Msg_LoadURL", 3, TRUE),
    Input("PContent::Msg_Shutdown", 1, FALSE),
    Input("PContent::Msg_GarbageCollect", 1, TRUE),
    Input("PContent::Msg_GarbageCollect", 1, FALSE),
    Input("PCompositorBridge::Msg_DidComposite", 1, FALSE),
    Input("PWindowGlobal::Msg_LoadURIInChild", 2, FALSE),
    Input("PWindowGlobal::Msg_LoadURIInChild", 3, TRUE) }

\* The messages the recording process sends to gParentProtocol.
ParentInputs ==
  { Input("PBrowser::Msg_LoadURL", 1, TRUE),
    Input("PContent::Msg_Shutdown", 1, FALSE),
    Input("PContent::Msg_GarbageCollect", 2, FALSE) }

\* The synchronous messages either process sends.
SyncInputs == { Input("PContent::Msg_GarbageCollect", 1, FALSE) }

\* ------------------------------------------------------------------ state

VARIABLES
  processKind,        \* gProcessKind
  status,             \* "running", "crashed" (MOZ_CRASH / release assert), "exited" (Shutdown ran)
  pc,                 \* position of each thread
  gChildProtocol,     \* NULL or the endpoint
  gParentProtocol,
  mOpposite,          \* per endpoint
  mOppositeMessageLoop,
  gParentProtocolOpened,
  parentChannelOpen,  \* gParentProtocol->Open() has run
  monitorOwner,       \* gMonitor: NULL or the thread holding it
  monitorWaiters,     \* threads inside gMonitor->Wait() that no notify has woken
  gMainThreadRunnables,
  gPostedProcessMainThreadRunnables,
  mainLoop,           \* tasks posted to MainThreadMessageLoop()
  forwardingLoop,     \* tasks posted to gForwardingMessageLoop
  mSyncMessage,       \* per endpoint: NULL or a message
  mSyncMessageReply,
  mSyncMessageIsCall,
  drainIndex,         \* i of ProcessMainThreadRunnables
  syncReturn,         \* where the main thread's MaybeSendSyncMessage returns to
  syncArg,            \* aMessage, aCall of the HandleSyncMessage in progress on the forwarding thread
  budget,             \* messages the channels may still deliver
  errorBudget,        \* error/close callbacks the channels may still deliver
  \* history, read by the properties only
  received,           \* per endpoint: the messages received, as they were on receipt
  transmitted,        \* per endpoint: what was sent on its channel
  delivered,          \* local deliveries, in order
  forwardPosted,      \* per receiving endpoint: ids of the messages whose ForwardMessageAsync was posted
  dispatched,         \* runnables given to DispatchToMainThread, in order
  ran,                \* runnables the drains have run, in order
  wakeupsPosted,      \* ProcessMainThreadRunnables tasks posted so far
  drainPhase,         \* "none", "first" (first drain running), "later"
  dispatchedAtFirstDrain,
  shutdownTriggers,   \* calls of BeginShutdown
  sendFailed,         \* per endpoint: ids of the messages whose Send in ForwardMessageAsync failed
  syncFailures,       \* per failed Send/Call of MaybeSendSyncMessage: endpoint and outcome
  channelEvents,      \* per OnChannelClose / OnChannelError callback: endpoint, event and outcome
  syncDone            \* completed synchronous exchanges

vars ==
  << processKind, status, pc, gChildProtocol, gParentProtocol, mOpposite,
     mOppositeMessageLoop, gParentProtocolOpened, parentChannelOpen,
     monitorOwner, monitorWaiters,
     gMainThreadRunnables, gPostedProcessMainThreadRunnables, mainLoop,
     forwardingLoop, mSyncMessage, mSyncMessageReply, mSyncMessageIsCall,
     drainIndex, syncReturn, syncArg, budget, errorBudget, received,
     transmitted, delivered, forwardPosted, dispatched, ran, wakeupsPosted,
     drainPhase, dispatchedAtFirstDrain, shutdownTriggers, sendFailed,
     syncFailures, channelEvents, syncDone >>

Protocols == {"gChildProtocol", "gParentProtocol"}

\* Variable groups, for UNCHANGED.
setupVars ==
  << processKind, gChildProtocol, gParentProtocol, mOpposite,
     mOppositeMessageLoop, gParentProtocolOpened, parentChannelOpen >>
monitorVars == << monitorOwner, monitorWaiters >>
queueVars ==
  << gMainThreadRunnables, gPostedProcessMainThreadRunnables, dispatched,
     wakeupsPosted >>
slotVars == << mSyncMessage, mSyncMessageReply, mSyncMessageIsCall >>
drainVars == << drainIndex, ran, drainPhase, dispatchedAtFirstDrain >>
inputVars == << budget, received >>
shutdownVars == << shutdownTriggers, sendFailed, syncFailures, channelEvents >>

\* -------------------------------------------------- the interception policy

\* What ContentChild / CompositorBridgeChild leave of a message they were
\* given ("HandleMessageInMiddleman may destructively modify it through
\* OnMessageReceived calls").
ConsumedMessage(aMessage) == [aMessage EXCEPT !.payload = "moved-from"]

\* What HandleMessageInMiddleman did: handled is its return value,
\* deliveredTo the actor tree whose OnMessageReceived it called (NULL: none).
Policy(h, who) == [handled |-> h, deliveredTo |-> who]

\* The dual-delivery branch, the local actor found: the message is given to
\* ContentChild and reported as not handled, so that it is forwarded too.
DualDelivery_Handled(aMessage) == Policy(TRUE, "ContentChild")

DualDelivery(aMessage) == Policy(FALSE, "ContentChild")

\* The search of the managed browsers for the actor the message names.
BrowserFound_Always(aMessage) == TRUE

BrowserFound(aMessage) == aMessage.routing_id \in ManagedPBrowserChild

\* The local-only branches: the message is given to the local actor tree and
\* reported as handled, so that it is not forwarded.
LocalOnly_Forwarded(who) == Policy(FALSE, who)

LocalOnly(who) == Policy(TRUE, who)

\* The test that leaves every message of the recording process alone.
IsParentSide_Never(aSide) == FALSE

IsParentSide(aSide) == aSide = ParentSide

HandleMessageInMiddleman(aSide, aMessage) ==
  LET type == aMessage.type
  IN  IF IsParentSide(aSide) THEN Policy(FALSE, NULL)
      ELSE IF type \in DualDeliveryTypes THEN
             IF type \in PBrowserRange /\ ~BrowserFound(aMessage)
             THEN Policy(FALSE, NULL)
             ELSE DualDelivery(aMessage)
      ELSE IF type \in LocalOnlyTypes THEN LocalOnly("ContentChild")
      ELSE IF type \in PCompositorBridgeRange THEN LocalOnly("CompositorBridgeChild")
      ELSE IF type \in PWindowGlobalRange THEN
             IF aMessage.routing_id \in LookupActors
             THEN Policy(TRUE, "ContentChild")
             ELSE Policy(FALSE, NULL)
      ELSE IF aMessage.fromMiddleman THEN Policy(TRUE, NULL)
      ELSE Policy(FALSE, NULL)

\* aMessage as HandleMessageInMiddleman leaves it.
MessageAfterHandling(aSide, aMessage) ==
  IF HandleMessageInMiddleman(aSide, aMessage).deliveredTo = NULL
  THEN aMessage
  ELSE ConsumedMessage(aMessage)

\* The message OnMessageReceived forwards: the copy taken before
\* HandleMessageInMiddleman ran.
ForwardedCopy_AfterHandling(aSide, aMessage) == MessageAfterHandling(aSide, aMessage)

ForwardedCopy(aSide, aMessage) == aMessage

\* ---------------------------------------------------------------- helpers

Running == status = "running"
Terminated == status # "running"

Runnable(fn, p, m) == [fn |-> fn, protocol |-> p, msg |-> m]

\* The reply the real peer produces for the message it was sent.
PeerReply(m) == [m EXCEPT !.payload = "reply"]

\* MOZ_CRASH, or a failed MOZ_RELEASE_ASSERT.
Crash == status' = "crashed"

\* gMonitor->NotifyAll() and gMonitor->Notify() (one waiter at most waits).
NotifyAll_Lost(waiters) == waiters

NotifyAll(waiters) == {}

Notify_Lost(waiters) == waiters

Notify(waiters) == {}

\* DispatchToMainThread posts a wake-up unless one is posted.
NeedsWakeup_Always(posted) == TRUE

NeedsWakeup(posted) == ~posted

\* The flag as ProcessMainThreadRunnables leaves it.
PostedAfterDrain(posted) == FALSE

\* gMainThreadRunnables as ProcessMainThreadRunnables leaves it.
RunnablesAfterDrain_Kept(q) == q

RunnablesAfterDrain(q) == << >>

\* mSyncMessage as MaybeSendSyncMessage leaves it.
SyncMessageAfterSend_Kept(m) == m

SyncMessageAfterSend(m) == NullMessage

\* mSyncMessageReply as HandleSyncMessage leaves it.
SyncReplyAfterReturn_Kept(m) == m

SyncReplyAfterReturn(m) == NullMessage

\* The failure of the Send/Call of MaybeSendSyncMessage passes the release
\* assertion (and begins shutdown) on this side only.
SyncSendFailureTolerated_Swapped(side) == side = ParentSide

SyncSendFailureTolerated(side) == side = ChildSide

\* The failure of the Send of ForwardMessageAsync passes the release
\* assertion on this side only.
AsyncSendFailureTolerated_Swapped(side) == side = ChildSide

AsyncSendFailureTolerated(side) == side = ParentSide

\* DispatchToMainThread(aRunnable): taken with gMonitor free.
DispatchToMainThread(r) ==
  /\ monitorOwner = NULL
  /\ gMainThreadRunnables' = Append(gMainThreadRunnables, r)
  /\ dispatched' = Append(dispatched, r)
  /\ IF NeedsWakeup(gPostedProcessMainThreadRunnables)
     THEN /\ mainLoop' = Append(mainLoop, "ProcessMainThreadRunnables")
          /\ gPostedProcessMainThreadRunnables' = TRUE
          /\ wakeupsPosted' = wakeupsPosted + 1
     ELSE UNCHANGED << mainLoop, gPostedProcessMainThreadRunnables, wakeupsPosted >>

\* BeginShutdown().
BeginShutdown ==
  /\ mainLoop' = Append(mainLoop, "Shutdown")
  /\ shutdownTriggers' = shutdownTriggers + 1

\* ForwardMessageAsync(aProtocol, aMessage), ok the result of Send.  It
\* leaves pc, the loops' heads and the drain's variables to its caller.
ForwardMessageAsync(aProtocol, aMessage, ok) ==
  IF ok
  THEN /\ transmitted' =
            [transmitted EXCEPT ![aProtocol] =
               Append(@, [msg |-> aMessage, via |-> "async", isCall |-> FALSE,
                          of |-> aMessage.id])]
       /\ UNCHANGED << status, mainLoop, shutdownTriggers, sendFailed >>
  ELSE /\ sendFailed' = [sendFailed EXCEPT ![aProtocol] = Append(@, aMessage.id)]
       /\ IF AsyncSendFailureTolerated(mSide(aProtocol))
          THEN /\ BeginShutdown
               /\ UNCHANGED << status, transmitted >>
          ELSE /\ Crash
               /\ UNCHANGED << transmitted, mainLoop, shutdownTriggers >>

\* ------------------------------------------------------------------- Init

InitWith(b, e) ==
  /\ processKind \in {"MiddlemanRecording", "MiddlemanReplaying"}
  /\ status = "running"
  /\ pc = [t \in Threads |->
             IF t = MainThread THEN "InitializeForwarding" ELSE "notCreated"]
  /\ gChildProtocol = NULL
  /\ gParentProtocol = NULL
  /\ mOpposite = [p \in Protocols |-> NULL]
  /\ mOppositeMessageLoop = [p \in Protocols |-> NULL]
  /\ gParentProtocolOpened = FALSE
  /\ parentChannelOpen = FALSE
  /\ monitorOwner = NULL
  /\ monitorWaiters = {}
  /\ gMainThreadRunnables = << >>
  /\ gPostedProcessMainThreadRunnables = FALSE
  /\ mainLoop = << >>
  /\ forwardingLoop = << >>
  /\ mSyncMessage = [p \in Protocols |-> NullMessage]
  /\ mSyncMessageReply = [p \in Protocols |-> NullMessage]
  /\ mSyncMessageIsCall = [p \in Protocols |-> FALSE]
  /\ drainIndex = 0
  /\ syncReturn = NULL
  /\ syncArg = [msg |-> NullMessage, call |-> FALSE]
  /\ budget = b
  /\ errorBudget = e
  /\ received = [p \in Protocols |-> << >>]
  /\ transmitted = [p \in Protocols |-> << >>]
  /\ delivered = << >>
  /\ forwardPosted = [p \in Protocols |-> << >>]
  /\ dispatched = << >>
  /\ ran = << >>
  /\ wakeupsPosted = 0
  /\ drainPhase = "none"
  /\ dispatchedAtFirstDrain = 0
  /\ shutdownTriggers = 0
  /\ sendFailed = [p \in Protocols |-> << >>]
  /\ syncFailures = << >>
  /\ channelEvents = << >>
  /\ syncDone = << >>

Init == InitWith(MaxMsgs, MaxErrors)

\* The message a channel hands to an endpoint, numbered in the order in
\* which the endpoint receives its messages.
NextId(p) == Len(received[p]) + 1

Numbered(m, n) ==
  [id |-> n, type |-> m.type, routing_id |-> m.routing_id,
   fromMiddleman |-> m.fromMiddleman, payload |-> m.payload]

Received(p, m, kind) ==
  received' = [received EXCEPT ![p] = Append(@, [msg |-> m, kind |-> kind])]

Goto(t, where) == pc' = [pc EXCEPT ![t] = where]

\* ------------------------------------------------------- initialization

\* InitializeForwarding() up to the creation of the forwarding thread.
InitializeForwarding ==
  /\ Running
  /\ pc[MainThread] = "InitializeForwarding"
  /\ gChildProtocol' = "gChildProtocol"
  /\ IF processKind = "MiddlemanRecording"
     THEN /\ gParentProtocol' = "gParentProtocol"
          /\ mOpposite' = [mOpposite EXCEPT !["gParentProtocol"] = "gChildProtocol",
                                            !["gChildProtocol"] = "gParentProtocol"]
          /\ mOppositeMessageLoop' =
               [mOppositeMessageLoop EXCEPT !["gParentProtocol"] = MainThread]
          /\ pc' = [pc EXCEPT ![MainThread] = "InitializeForwarding_wait",
                              ![ForwardingThread] = "ForwardingMessageLoopMain"]
     ELSE /\ Goto(MainThread, "idle")
          /\ UNCHANGED << gParentProtocol, mOpposite, mOppositeMessageLoop >>
  /\ UNCHANGED << processKind, status, gParentProtocolOpened, parentChannelOpen,
                  monitorVars, queueVars, mainLoop, forwardingLoop, slotVars,
                  drainVars, syncReturn, syncArg, inputVars, errorBudget,
                  transmitted, delivered, forwardPosted, shutdownVars, syncDone >>

\* InitializeForwarding(): while (!gParentProtocolOpened) gMonitor->Wait().
InitializeForwardingWait ==
  /\ Running
  /\ pc[MainThread] = "InitializeForwarding_wait"
  /\ monitorOwner = NULL
  /\ MainThread \notin monitorWaiters
  /\ IF gParentProtocolOpened
     THEN /\ Goto(MainThread, "idle")
          /\ UNCHANGED monitorWaiters
     ELSE /\ monitorWaiters' = monitorWaiters \cup {MainThread}
          /\ UNCHANGED pc
  /\ UNCHANGED << setupVars, status, monitorOwner, queueVars, mainLoop,
                  forwardingLoop, slotVars, drainVars, syncReturn, syncArg,
                  inputVars, errorBudget, transmitted, delivered, forwardPosted,
                  shutdownVars, syncDone >>

\* ForwardingMessageLoopMain: gChildProtocol->mOppositeMessageLoop is set.
ForwardingLoopStart ==
  /\ Running
  /\ pc[ForwardingThread] = "ForwardingMessageLoopMain"
  /\ mOppositeMessageLoop' =
       [mOppositeMessageLoop EXCEPT !["gChildProtocol"] = ForwardingThread]
  /\ Goto(ForwardingThread, "ForwardingMessageLoopMain_open")
  /\ UNCHANGED << processKind, gChildProtocol, gParentProtocol, mOpposite,
                  gParentProtocolOpened, parentChannelOpen, status, monitorVars,
                  queueVars, mainLoop, forwardingLoop, slotVars, drainVars,
                  syncReturn, syncArg, inputVars, errorBudget, transmitted,
                  delivered, forwardPosted, shutdownVars, syncDone >>

\* ForwardingMessageLoopMain: gParentProtocol->Open(...).
ForwardingLoopOpen ==
  /\ Running
  /\ pc[ForwardingThread] = "ForwardingMessageLoopMain_open"
  /\ parentChannelOpen' = TRUE
  /\ Goto(ForwardingThread, "ForwardingMessageLoopMain_notify")
  /\ UNCHANGED << processKind, gChildProtocol, gParentProtocol, mOpposite,
                  mOppositeMessageLoop, gParentProtocolOpened, status,
                  monitorVars, queueVars, mainLoop, forwardingLoop, slotVars,
                  drainVars, syncReturn, syncArg, inputVars, errorBudget,
                  transmitted, delivered, forwardPosted, shutdownVars, syncDone >>

\* ForwardingMessageLoopMain: the notification under gMonitor, then
\* messageLoop.Run().
ForwardingLoopNotify ==
  /\ Running
  /\ pc[ForwardingThread] = "ForwardingMessageLoopMain_notify"
  /\ monitorOwner = NULL
  /\ gParentProtocolOpened' = TRUE
  /\ monitorWaiters' = Notify(monitorWaiters)
  /\ Goto(ForwardingThread, "idle")
  /\ UNCHANGED << processKind, gChildProtocol, gParentProtocol, mOpposite,
                  mOppositeMessageLoop, parentChannelOpen, status, monitorOwner,
                  queueVars, mainLoop, forwardingLoop, slotVars, drainVars,
                  syncReturn, syncArg, inputVars, errorBudget, transmitted,
                  delivered, forwardPosted, shutdownVars, syncDone >>

\* ------------------------------------------- asynchronous messages, received

\* The local delivery HandleMessageInMiddleman(aSide, m) performs.
Deliver(aSide, m) ==
  LET r == HandleMessageInMiddleman(aSide, m)
  IN  IF r.deliveredTo = NULL
      THEN UNCHANGED delivered
      ELSE delivered' =
             Append(delivered, [msg |-> m, to |-> r.deliveredTo, side |-> aSide])

\* OnMessageReceived without mOppositeMessageLoop passes its release
\* assertion on this side only.
UnattachedAllowed_Never(side) == FALSE

UnattachedAllowed(side) == side = ChildSide

\* gChildProtocol->OnMessageReceived(aMessage), on the main thread.
ChildOnMessageReceived ==
  /\ Running
  /\ pc[MainThread] = "idle"
  /\ budget > 0
  /\ \E m \in ChildInputs :
       LET msg == Numbered(m, NextId("gChildProtocol"))
           attached == mOppositeMessageLoop["gChildProtocol"] # NULL
           nMessage == ForwardedCopy(ChildSide, msg)
           handled == HandleMessageInMiddleman(ChildSide, msg).handled
       IN  /\ Received("gChildProtocol", msg, IF attached THEN "async" ELSE "unattached")
           /\ IF ~attached /\ ~UnattachedAllowed(ChildSide)
              THEN /\ Crash
                   /\ UNCHANGED << delivered, forwardingLoop, forwardPosted >>
              ELSE /\ Deliver(ChildSide, msg)
                   /\ UNCHANGED status
                   /\ IF attached /\ ~handled
                      THEN /\ forwardingLoop' =
                                Append(forwardingLoop,
                                       Runnable("ForwardMessageAsync",
                                                mOpposite["gChildProtocol"], nMessage))
                           /\ forwardPosted' =
                                [forwardPosted EXCEPT !["gChildProtocol"] = Append(@, msg.id)]
                      ELSE UNCHANGED << forwardingLoop, forwardPosted >>
  /\ budget' = budget - 1
  /\ UNCHANGED << setupVars, pc, monitorVars, queueVars, mainLoop,
                  slotVars, drainVars, syncReturn, syncArg, errorBudget,
                  transmitted, shutdownVars, syncDone >>

\* gParentProtocol->OnMessageReceived(aMessage), on the forwarding thread.
ParentOnMessageReceived ==
  /\ Running
  /\ pc[ForwardingThread] = "idle"
  /\ budget > 0
  /\ \E m \in ParentInputs :
       LET msg == Numbered(m, NextId("gParentProtocol"))
           attached == mOppositeMessageLoop["gParentProtocol"] # NULL
           nMessage == ForwardedCopy(ParentSide, msg)
           handled == HandleMessageInMiddleman(ParentSide, msg).handled
       IN  /\ Received("gParentProtocol", msg, IF attached THEN "async" ELSE "unattached")
           /\ IF ~attached /\ ~UnattachedAllowed(ParentSide)
              THEN /\ Crash
                   /\ UNCHANGED << delivered, queueVars, mainLoop, forwardPosted >>
              ELSE /\ Deliver(ParentSide, msg)
                   /\ UNCHANGED status
                   /\ IF attached /\ ~handled
                      THEN /\ DispatchToMainThread(
                                Runnable("ForwardMessageAsync",
                                         mOpposite["gParentProtocol"], nMessage))
                           /\ forwardPosted' =
                                [forwardPosted EXCEPT !["gParentProtocol"] = Append(@, msg.id)]
                      ELSE UNCHANGED << queueVars, mainLoop, forwardPosted >>
  /\ budget' = budget - 1
  /\ UNCHANGED << setupVars, pc, monitorVars, forwardingLoop, slotVars,
                  drainVars, syncReturn, syncArg, errorBudget, transmitted,
                  shutdownVars, syncDone >>

\* -------------------------------------------------- the two message loops

\* The main thread's message loop runs its next task: the posted
\* ProcessMainThreadRunnables, or Shutdown, which ends the process.
MainLoopRunTask ==
  /\ Running
  /\ pc[MainThread] = "idle"
  /\ mainLoop # << >>
  /\ mainLoop' = Tail(mainLoop)
  /\ IF Head(mainLoop) = "Shutdown"
     THEN /\ status' = "exited"
          /\ UNCHANGED pc
     ELSE /\ Goto(MainThread, "ProcessMainThreadRunnables")
          /\ UNCHANGED status
  /\ UNCHANGED << setupVars, monitorVars, queueVars, forwardingLoop, slotVars,
                  drainVars, syncReturn, syncArg, inputVars, errorBudget,
                  transmitted, delivered, forwardPosted, shutdownVars, syncDone >>

\* MaybeHandleForwardedMessages(), called from the main thread.
MaybeHandleForwardedMessages ==
  /\ Running
  /\ pc[MainThread] = "idle"
  /\ IF gParentProtocol # NULL
     THEN /\ Goto(MainThread, "MaybeSendSyncMessage")
          /\ syncReturn' = "ProcessMainThreadRunnables"
     ELSE /\ Goto(MainThread, "ProcessMainThreadRunnables")
          /\ UNCHANGED syncReturn
  /\ UNCHANGED << setupVars, status, monitorVars, queueVars, mainLoop,
                  forwardingLoop, slotVars, drainVars, syncArg, inputVars,
                  errorBudget, transmitted, delivered, forwardPosted,
                  shutdownVars, syncDone >>

\* The drain has run every runnable: the queue is cleared and the flag reset,
\* gMonitor being held since the loop's last test.
DrainFinish ==
  /\ gMainThreadRunnables' = RunnablesAfterDrain(gMainThreadRunnables)
  /\ gPostedProcessMainThreadRunnables' =
       PostedAfterDrain(gPostedProcessMainThreadRunnables)
  /\ drainIndex' = 0
  /\ drainPhase' = "later"
  /\ Goto(MainThread, "idle")

\* ProcessMainThreadRunnables(): gMonitor is taken and the loop tested for
\* the first time.
ProcessMainThreadRunnablesBegin ==
  /\ Running
  /\ pc[MainThread] = "ProcessMainThreadRunnables"
  /\ monitorOwner = NULL
  /\ dispatchedAtFirstDrain' =
       IF drainPhase = "none" THEN Len(dispatched) ELSE dispatchedAtFirstDrain
  /\ IF gMainThreadRunnables = << >>
     THEN DrainFinish
     ELSE /\ drainIndex' = 1
          /\ drainPhase' = IF drainPhase = "none" THEN "first" ELSE drainPhase
          /\ Goto(MainThread, "ProcessMainThreadRunnables_run")
          /\ UNCHANGED << gMainThreadRunnables, gPostedProcessMainThreadRunnables >>
  /\ UNCHANGED << setupVars, status, monitorVars, dispatched, wakeupsPosted,
                  mainLoop, forwardingLoop, slotVars, ran, syncReturn, syncArg,
                  inputVars, errorBudget, transmitted, delivered, forwardPosted,
                  shutdownVars, syncDone >>

\* ProcessMainThreadRunnables(): runnable->Run() with gMonitor released.
ProcessMainThreadRunnablesRun ==
  /\ Running
  /\ pc[MainThread] = "ProcessMainThreadRunnables_run"
  /\ LET r == gMainThreadRunnables[drainIndex]
     IN  /\ ran' = Append(ran, r)
         /\ IF r.fn = "ForwardMessageAsync"
            THEN /\ \E ok \in BOOLEAN : ForwardMessageAsync(r.protocol, r.msg, ok)
                 /\ Goto(MainThread, "ProcessMainThreadRunnables_next")
                 /\ UNCHANGED syncReturn
            ELSE /\ Goto(MainThread, "MaybeSendSyncMessage")
                 /\ syncReturn' = "ProcessMainThreadRunnables_next"
                 /\ UNCHANGED << status, transmitted, mainLoop, shutdownTriggers,
                                 sendFailed >>
  /\ UNCHANGED << setupVars, monitorVars, queueVars, forwardingLoop, slotVars,
                  drainIndex, drainPhase, dispatchedAtFirstDrain, syncArg,
                  inputVars, errorBudget, delivered, forwardPosted, syncFailures,
                  channelEvents, syncDone >>

\* The loop's test, i < gMainThreadRunnables.length(), after i++ has made
\* i the (0-based) index of the runnable after the drainIndex-th.
DrainContinues_Never(i, q) == FALSE

DrainContinues(i, q) == i + 1 <= Len(q)

\* ProcessMainThreadRunnables(): gMonitor is taken again, i++ and the loop
\* tested against the queue's length as it is now.
ProcessMainThreadRunnablesNext ==
  /\ Running
  /\ pc[MainThread] = "ProcessMainThreadRunnables_next"
  /\ monitorOwner = NULL
  /\ IF DrainContinues(drainIndex, gMainThreadRunnables)
     THEN /\ drainIndex' = drainIndex + 1
          /\ Goto(MainThread, "ProcessMainThreadRunnables_run")
          /\ UNCHANGED << gMainThreadRunnables, gPostedProcessMainThreadRunnables,
                          drainPhase >>
     ELSE DrainFinish
  /\ UNCHANGED << setupVars, status, monitorVars, dispatched, wakeupsPosted,
                  mainLoop, forwardingLoop, slotVars, ran, dispatchedAtFirstDrain,
                  syncReturn, syncArg, inputVars, errorBudget, transmitted,
                  delivered, forwardPosted, shutdownVars, syncDone >>

\* The forwarding thread's message loop runs its next task.
ForwardingLoopRunTask ==
  /\ Running
  /\ pc[ForwardingThread] = "idle"
  /\ forwardingLoop # << >>
  /\ forwardingLoop' = Tail(forwardingLoop)
  /\ LET r == Head(forwardingLoop)
     IN  IF r.fn = "ForwardMessageAsync"
         THEN /\ \E ok \in BOOLEAN : ForwardMessageAsync(r.protocol, r.msg, ok)
              /\ UNCHANGED pc
         ELSE /\ Goto(ForwardingThread, "MaybeSendSyncMessage")
              /\ UNCHANGED << status, transmitted, mainLoop, shutdownTriggers,
                                 sendFailed >>
  /\ UNCHANGED << setupVars, monitorVars, queueVars, slotVars, drainVars,
                  syncReturn, syncArg, inputVars, errorBudget, delivered,
                  forwardPosted, syncFailures, channelEvents, syncDone >>

\* ------------------------------------------------- MaybeSendSyncMessage

\* Where MaybeSendSyncMessage returns to on thread t.
SyncReturnOf(t) == IF t = MainThread THEN syncReturn ELSE "idle"

\* MaybeSendSyncMessage()'s test for a pending message, !mSyncMessage.
HasSyncMessage_Always(m) == TRUE

HasSyncMessage(m) == m # NullMessage

\* MaybeSendSyncMessage(): gMonitor is taken; without a pending message it
\* returns, otherwise the reply slot is asserted empty and a new Message put
\* into it.  gMonitor stays held.
MaybeSendSyncMessageEnter(t) ==
  /\ Running
  /\ pc[t] = "MaybeSendSyncMessage"
  /\ monitorOwner = NULL
  /\ LET p == SyncProtocolOf(t)
     IN  IF ~HasSyncMessage(mSyncMessage[p])
         THEN /\ Goto(t, SyncReturnOf(t))
              /\ UNCHANGED << status, monitorOwner, mSyncMessageReply >>
         ELSE IF mSyncMessageReply[p] # NullMessage
         THEN /\ Crash
              /\ UNCHANGED << pc, monitorOwner, mSyncMessageReply >>
         ELSE /\ mSyncMessageReply' = [mSyncMessageReply EXCEPT ![p] = EmptyMessage]
              /\ monitorOwner' = t
              /\ Goto(t, "MaybeSendSyncMessage_send")
              /\ UNCHANGED status
  /\ UNCHANGED << setupVars, monitorWaiters, queueVars, mainLoop, forwardingLoop,
                  mSyncMessage, mSyncMessageIsCall, drainVars, syncReturn,
                  syncArg, inputVars, errorBudget, transmitted, delivered,
                  forwardPosted, shutdownVars, syncDone >>

\* MaybeSendSyncMessage(): Call or Send of mSyncMessage on the opposite
\* endpoint's channel, which fills the reply or fails.
MaybeSendSyncMessageSend(t) ==
  /\ Running
  /\ pc[t] = "MaybeSendSyncMessage_send"
  /\ monitorOwner = t
  /\ LET p == SyncProtocolOf(t)
     IN  \E ok \in BOOLEAN :
           IF ok
           THEN /\ transmitted' =
                     [transmitted EXCEPT ![mOpposite[p]] =
                        Append(@, [msg |-> mSyncMessage[p], via |-> "sync",
                                   isCall |-> mSyncMessageIsCall[p],
                                   of |-> IF t = MainThread
                                          THEN syncArg.msg.id
                                          ELSE mSyncMessage[p].id])]
                /\ mSyncMessageReply' =
                     [mSyncMessageReply EXCEPT ![p] = PeerReply(mSyncMessage[p])]
                /\ Goto(t, "MaybeSendSyncMessage_finish")
                /\ UNCHANGED << status, mainLoop, shutdownTriggers, syncFailures >>
           ELSE IF SyncSendFailureTolerated(mSide(p))
           THEN /\ BeginShutdown
                /\ syncFailures' =
                     Append(syncFailures, [protocol |-> p, outcome |-> "BeginShutdown"])
                /\ Goto(t, "MaybeSendSyncMessage_finish")
                /\ UNCHANGED << status, transmitted, mSyncMessageReply >>
           ELSE /\ Crash
                /\ syncFailures' =
                     Append(syncFailures, [protocol |-> p, outcome |-> "abort"])
                /\ UNCHANGED << pc, transmitted, mSyncMessageReply, mainLoop,
                                shutdownTriggers >>
  /\ UNCHANGED << setupVars, monitorVars, queueVars, forwardingLoop,
                  mSyncMessage, mSyncMessageIsCall, drainVars, syncReturn,
                  syncArg, inputVars, errorBudget, delivered, forwardPosted,
                  sendFailed, channelEvents, syncDone >>

\* MaybeSendSyncMessage(): mSyncMessage = nullptr, NotifyAll, and gMonitor
\* is released on return.
MaybeSendSyncMessageFinish(t) ==
  /\ Running
  /\ pc[t] = "MaybeSendSyncMessage_finish"
  /\ monitorOwner = t
  /\ LET p == SyncProtocolOf(t)
     IN  mSyncMessage' =
           [mSyncMessage EXCEPT ![p] = SyncMessageAfterSend(mSyncMessage[p])]
  /\ monitorWaiters' = NotifyAll(monitorWaiters)
  /\ monitorOwner' = NULL
  /\ Goto(t, SyncReturnOf(t))
  /\ UNCHANGED << setupVars, status, queueVars, mainLoop, forwardingLoop,
                  mSyncMessageReply, mSyncMessageIsCall, drainVars, syncReturn,
                  syncArg, inputVars, errorBudget, transmitted, delivered,
                  forwardPosted, shutdownVars, syncDone >>

\* ---------------------------------------------------- HandleSyncMessage

\* gChildProtocol->OnMessageReceived(aMessage, aReply) / OnCallReceived on
\* the main thread: HandleSyncMessage up to the posted task.  Nothing reads
\* gChildProtocol's slot before that task runs.
ChildOnSyncReceived ==
  /\ Running
  /\ pc[MainThread] = "idle"
  /\ budget > 0
  /\ \E m \in SyncInputs, aCall \in BOOLEAN :
       LET msg == Numbered(m, NextId("gChildProtocol"))
       IN  /\ Received("gChildProtocol", msg, IF aCall THEN "call" ELSE "sync")
           /\ IF mOppositeMessageLoop["gChildProtocol"] = NULL
              THEN /\ Crash
                   /\ UNCHANGED << pc, mSyncMessage, mSyncMessageIsCall,
                                   forwardingLoop >>
              ELSE /\ mSyncMessage' = [mSyncMessage EXCEPT !["gChildProtocol"] = msg]
                   /\ mSyncMessageIsCall' =
                        [mSyncMessageIsCall EXCEPT !["gChildProtocol"] = aCall]
                   /\ forwardingLoop' =
                        Append(forwardingLoop,
                               Runnable("StaticMaybeSendSyncMessage",
                                        "gChildProtocol", NullMessage))
                   /\ Goto(MainThread, "HandleSyncMessage_NYI")
                   /\ UNCHANGED status
  /\ budget' = budget - 1
  /\ UNCHANGED << setupVars, monitorVars, queueVars, mainLoop, mSyncMessageReply,
                  drainVars, syncReturn, syncArg, errorBudget, transmitted,
                  delivered, forwardPosted, shutdownVars, syncDone >>

\* HandleSyncMessage's test after the task is posted: waiting for the reply
\* is not implemented on this side.
SyncReplyNYI_Never(side) == FALSE

SyncReplyNYI(side) == side = ChildSide

\* HandleSyncMessage with mSide == ChildSide: MOZ_CRASH("NYI").
ChildSyncNYI ==
  /\ Running
  /\ pc[MainThread] = "HandleSyncMessage_NYI"
  /\ IF SyncReplyNYI(mSide("gChildProtocol"))
     THEN /\ Crash
          /\ UNCHANGED pc
     ELSE /\ Goto(MainThread, "HandleSyncMessage_lock")
          /\ UNCHANGED status
  /\ UNCHANGED << setupVars, monitorVars, queueVars, mainLoop,
                  forwardingLoop, slotVars, drainVars, syncReturn, syncArg,
                  inputVars, errorBudget, transmitted, delivered, forwardPosted,
                  shutdownVars, syncDone >>

\* gParentProtocol->OnMessageReceived(aMessage, aReply) / OnCallReceived on
\* the forwarding thread: mSyncMessage = new Message(), without gMonitor.
ParentOnSyncReceived ==
  /\ Running
  /\ pc[ForwardingThread] = "idle"
  /\ budget > 0
  /\ \E m \in SyncInputs, aCall \in BOOLEAN :
       LET msg == Numbered(m, NextId("gParentProtocol"))
       IN  /\ Received("gParentProtocol", msg, IF aCall THEN "call" ELSE "sync")
           /\ syncArg' = [msg |-> msg, call |-> aCall]
  /\ mSyncMessage' = [mSyncMessage EXCEPT !["gParentProtocol"] = EmptyMessage]
  /\ Goto(ForwardingThread, "HandleSyncMessage_copy")
  /\ budget' = budget - 1
  /\ UNCHANGED << setupVars, status, monitorVars, queueVars, mainLoop,
                  forwardingLoop, mSyncMessageReply, mSyncMessageIsCall,
                  drainVars, syncReturn, errorBudget, transmitted, delivered,
                  forwardPosted, shutdownVars, syncDone >>

\* HandleSyncMessage: mSyncMessage->CopyFrom(aMessage), without gMonitor.
\* When the main thread has already sent the message (and perhaps reset
\* mSyncMessage), the copy goes through a null or dangling pointer: the
\* thread crashes, or goes on and the copy is lost.
ParentSyncCopy ==
  /\ Running
  /\ pc[ForwardingThread] = "HandleSyncMessage_copy"
  /\ IF mSyncMessage["gParentProtocol"] = NullMessage
        \/ pc[MainThread] = "MaybeSendSyncMessage_finish"
     THEN \/ /\ Crash
             /\ UNCHANGED << pc, mSyncMessage >>
          \/ /\ Goto(ForwardingThread, "HandleSyncMessage_isCall")
             /\ UNCHANGED << status, mSyncMessage >>
     ELSE /\ mSyncMessage' = [mSyncMessage EXCEPT !["gParentProtocol"] = syncArg.msg]
          /\ Goto(ForwardingThread, "HandleSyncMessage_isCall")
          /\ UNCHANGED status
  /\ UNCHANGED << setupVars, monitorVars, queueVars, mainLoop, forwardingLoop,
                  mSyncMessageReply, mSyncMessageIsCall, drainVars, syncReturn,
                  syncArg, inputVars, errorBudget, transmitted, delivered,
                  forwardPosted, shutdownVars, syncDone >>

\* HandleSyncMessage: mSyncMessageIsCall = aCall, without gMonitor.
ParentSyncIsCall ==
  /\ Running
  /\ pc[ForwardingThread] = "HandleSyncMessage_isCall"
  /\ mSyncMessageIsCall' =
       [mSyncMessageIsCall EXCEPT !["gParentProtocol"] = syncArg.call]
  /\ Goto(ForwardingThread, "HandleSyncMessage_post")
  /\ UNCHANGED << setupVars, status, monitorVars, queueVars, mainLoop,
                  forwardingLoop, mSyncMessage, mSyncMessageReply, drainVars,
                  syncReturn, syncArg, inputVars, errorBudget, transmitted,
                  delivered, forwardPosted, shutdownVars, syncDone >>

\* HandleSyncMessage: PostOppositeRunnable(StaticMaybeSendSyncMessage).
ParentSyncPost ==
  /\ Running
  /\ pc[ForwardingThread] = "HandleSyncMessage_post"
  /\ DispatchToMainThread(
       Runnable("StaticMaybeSendSyncMessage", "gParentProtocol", NullMessage))
  /\ Goto(ForwardingThread, "HandleSyncMessage_lock")
  /\ UNCHANGED << setupVars, status, monitorVars, forwardingLoop, slotVars,
                  drainVars, syncReturn, syncArg, inputVars, errorBudget,
                  transmitted, delivered, forwardPosted, shutdownVars, syncDone >>

\* HandleSyncMessage: gMonitor is taken, NotifyAll, and the loop tested for
\* the first time; Wait releases gMonitor.
ParentSyncLock ==
  /\ Running
  /\ pc[ForwardingThread] = "HandleSyncMessage_lock"
  /\ monitorOwner = NULL
  /\ IF mSyncMessageReply["gParentProtocol"] # NullMessage
     THEN /\ monitorWaiters' = NotifyAll(monitorWaiters)
          /\ Goto(ForwardingThread, "HandleSyncMessage_return")
     ELSE /\ monitorWaiters' = NotifyAll(monitorWaiters) \cup {ForwardingThread}
          /\ Goto(ForwardingThread, "HandleSyncMessage_wait")
  /\ UNCHANGED << setupVars, status, monitorOwner, queueVars, mainLoop,
                  forwardingLoop, slotVars, drainVars, syncReturn, syncArg,
                  inputVars, errorBudget, transmitted, delivered, forwardPosted,
                  shutdownVars, syncDone >>

\* HandleSyncMessage: woken from Wait with gMonitor, the loop is tested again.
ParentSyncWake ==
  /\ Running
  /\ pc[ForwardingThread] = "HandleSyncMessage_wait"
  /\ monitorOwner = NULL
  /\ ForwardingThread \notin monitorWaiters
  /\ IF mSyncMessageReply["gParentProtocol"] # NullMessage
     THEN /\ Goto(ForwardingThread, "HandleSyncMessage_return")
          /\ UNCHANGED monitorWaiters
     ELSE /\ monitorWaiters' = monitorWaiters \cup {ForwardingThread}
          /\ UNCHANGED pc
  /\ UNCHANGED << setupVars, status, monitorOwner, queueVars, mainLoop,
                  forwardingLoop, slotVars, drainVars, syncReturn, syncArg,
                  inputVars, errorBudget, transmitted, delivered, forwardPosted,
                  shutdownVars, syncDone >>

\* HandleSyncMessage: aReply = mSyncMessageReply; mSyncMessageReply = nullptr,
\* gMonitor released; the call returns.
ParentSyncReturn ==
  /\ Running
  /\ pc[ForwardingThread] = "HandleSyncMessage_return"
  /\ mSyncMessageReply' =
       [mSyncMessageReply EXCEPT
          !["gParentProtocol"] = SyncReplyAfterReturn(mSyncMessageReply["gParentProtocol"])]
  /\ syncDone' =
       Append(syncDone,
              [msg |-> syncArg.msg,
               aReply |-> mSyncMessageReply["gParentProtocol"],
               syncMessageLeft |-> mSyncMessage["gParentProtocol"],
               replyLeft |-> mSyncMessageReply'["gParentProtocol"]])
  /\ Goto(ForwardingThread, "idle")
  /\ UNCHANGED << setupVars, status, monitorVars, queueVars, mainLoop,
                  forwardingLoop, mSyncMessage, mSyncMessageIsCall, drainVars,
                  syncReturn, syncArg, inputVars, errorBudget, transmitted,
                  delivered, forwardPosted, shutdownVars >>

\* ------------------------------------------------------- channel events

\* OnChannelError() of either endpoint, OnChannelClose() of gChildProtocol:
\* BeginShutdown().  Each runs on the thread of its endpoint's channel.
ChannelErrorThread(p) == IF p = "gChildProtocol" THEN MainThread ELSE ForwardingThread

OnChannelError(p) ==
  /\ Running
  /\ pc[ChannelErrorThread(p)] = "idle"
  /\ errorBudget > 0
  /\ errorBudget' = errorBudget - 1
  /\ BeginShutdown
  /\ channelEvents' =
       Append(channelEvents,
              [protocol |-> p, event |-> "error", outcome |-> "BeginShutdown"])
  /\ UNCHANGED << setupVars, status, pc, monitorVars, queueVars, forwardingLoop,
                  slotVars, drainVars, syncReturn, syncArg, inputVars,
                  transmitted, delivered, forwardPosted, sendFailed, syncFailures,
                  syncDone >>

\* OnChannelClose passes its release assertion on this side only.
ChannelCloseTolerated_Swapped(side) == side = ParentSide

ChannelCloseTolerated(side) == side = ChildSide

\* OnChannelClose(): MOZ_RELEASE_ASSERT(mSide == ipc::ChildSide), BeginShutdown().
OnChannelClose(p) ==
  /\ Running
  /\ pc[ChannelErrorThread(p)] = "idle"
  /\ errorBudget > 0
  /\ errorBudget' = errorBudget - 1
  /\ IF ChannelCloseTolerated(mSide(p))
     THEN /\ BeginShutdown
          /\ channelEvents' =
               Append(channelEvents,
                      [protocol |-> p, event |-> "close", outcome |-> "BeginShutdown"])
          /\ UNCHANGED status
     ELSE /\ Crash
          /\ channelEvents' =
               Append(channelEvents,
                      [protocol |-> p, event |-> "close", outcome |-> "abort"])
          /\ UNCHANGED << mainLoop, shutdownTriggers >>
  /\ UNCHANGED << setupVars, pc, monitorVars, queueVars, forwardingLoop,
                  slotVars, drainVars, syncReturn, syncArg, inputVars,
                  transmitted, delivered, forwardPosted, sendFailed, syncFailures,
                  syncDone >>

\* ------------------------------------------------------- specifications

\* Steps of the main thread that need no event from outside.
MainThreadStep ==
  \/ InitializeForwarding
  \/ InitializeForwardingWait
  \/ MainLoopRunTask
  \/ ProcessMainThreadRunnablesBegin
  \/ ProcessMainThreadRunnablesRun
  \/ ProcessMainThreadRunnablesNext
  \/ MaybeSendSyncMessageEnter(MainThread)
  \/ MaybeSendSyncMessageSend(MainThread)
  \/ MaybeSendSyncMessageFinish(MainThread)
  \/ ChildSyncNYI

\* Steps of the forwarding thread that need no event from outside.
ForwardingThreadStep ==
  \/ ForwardingLoopStart
  \/ ForwardingLoopOpen
  \/ ForwardingLoopNotify
  \/ ForwardingLoopRunTask
  \/ MaybeSendSyncMessageEnter(ForwardingThread)
  \/ MaybeSendSyncMessageSend(ForwardingThread)
  \/ MaybeSendSyncMessageFinish(ForwardingThread)
  \/ ParentSyncCopy
  \/ ParentSyncIsCall
  \/ ParentSyncPost
  \/ ParentSyncLock
  \/ ParentSyncWake
  \/ ParentSyncReturn

\* What the channels and the main thread's callers do.
Environment ==
  \/ ChildOnMessageReceived
  \/ ParentOnMessageReceived
  \/ ChildOnSyncReceived
  \/ ParentOnSyncReceived
  \/ MaybeHandleForwardedMessages
  \/ OnChannelError("gChildProtocol")
  \/ OnChannelError("gParentProtocol")
  \/ OnChannelClose("gChildProtocol")
  \/ OnChannelClose("gParentProtocol")

Next == MainThreadStep \/ ForwardingThreadStep \/ Environment

Spec == Init /\ [][Next]_vars

\* The fair specification: each thread that can take a step of its own
\* eventually takes one (the message loops run their posted tasks and a
\* runnable thread is scheduled).  What the channels deliver, and when the
\* main thread polls, is left to the environment.
LiveInit == InitWith(MaxLiveMsgs, MaxLiveErrors)

FairSpec ==
  /\ LiveInit
  /\ [][Next]_vars
  /\ WF_vars(MainThreadStep)
  /\ WF_vars(ForwardingThreadStep)

\* ------------------------------------------------------------------ claims

InHandleSyncMessage ==
  pc[ForwardingThread] \in
    { "HandleSyncMessage_copy", "HandleSyncMessage_isCall",
      "HandleSyncMessage_post", "HandleSyncMessage_lock",
      "HandleSyncMessage_wait", "HandleSyncMessage_return" }

\* C9: under weak fairness of the two threads, whether the peer replies or
\* the Send/Call fails, a thread inside HandleSyncMessage (blocked in
\* gMonitor->Wait() or on its way there) eventually leaves it: the call
\* returns, or the process terminates.
C9_NoSyncHang ==
  InHandleSyncMessage ~> (pc[ForwardingThread] = "idle" \/ Terminated)

\* ------------------------------------------------------------ vocabulary

Other(p) == IF p = "gChildProtocol" THEN "gParentProtocol" ELSE "gChildProtocol"

\* How often x occurs in the sequence q.
Count(q, x) == Cardinality({ i \in DOMAIN q : q[i] = x })

\* The transmissions on p's channel made for message id of the opposite
\* endpoint.
TransmissionsOf(p, id) == { i \in DOMAIN transmitted[p] : transmitted[p][i].of = id }

ShutdownTasksPosted == Count(mainLoop, "Shutdown")

SyncKinds == {"sync", "call"}

\* C1: on each channel the forwarded messages (asynchronous and synchronous
\* alike) are transmitted in the order in which the opposite endpoint
\* received them.
C1_ForwardedInReceiveOrder ==
  \A p \in Protocols :
    \A i, j \in DOMAIN transmitted[p] :
      i < j => transmitted[p][i].of < transmitted[p][j].of

C3_ShutdownPostedOnce ==
  shutdownTriggers >= 1 /\ Running => ShutdownTasksPosted = 1

\* C4: the calls of DispatchToMainThread made before any drain post one
\* ProcessMainThreadRunnables wake-up between them, and the first drain runs
\* all of them, in the order of the calls.
C4_CoalescedWakeup ==
  /\ (drainPhase = "none" /\ Len(dispatched) >= 1) => wakeupsPosted = 1
  /\ drainPhase = "later" =>
       /\ Len(ran) >= dispatchedAtFirstDrain
       /\ \A i \in 1..dispatchedAtFirstDrain : ran[i] = dispatched[i]

\* The first drain has run two runnables dispatched before it began.
C4_Witness ==
  /\ drainPhase = "later"
  /\ dispatchedAtFirstDrain >= 2
  /\ wakeupsPosted = 1

\* The ids of the messages gChildProtocol / gParentProtocol may receive in
\* a run.
MessageIds == 1..MaxLiveMsgs

ForwardPosted(p, id) == Count(forwardPosted[p], id) >= 1

Transmitted(p, id) == TransmissionsOf(Other(p), id) # {}

\* No message is transmitted twice on a channel.
NoneTransmittedTwice ==
  \A p \in Protocols : \A id \in MessageIds :
    Cardinality(TransmissionsOf(p, id)) <= 1

\* C5 as stated: every message whose forwarding was posted is eventually
\* transmitted on the opposite endpoint's channel, and none twice.
C5_EveryForwardTransmitted ==
  /\ []NoneTransmittedTwice
  /\ \A p \in Protocols : \A id \in MessageIds :
       ForwardPosted(p, id) ~> Transmitted(p, id)

\* C5 as amended: every message whose forwarding was posted is eventually
\* transmitted on the opposite endpoint's channel, unless its Send fails or
\* the process terminates first (Shutdown runs, or a fatal abort); no drain
\* loses it and none is transmitted twice.
C5_ForwardTransmittedUnlessTerminated ==
  /\ []NoneTransmittedTwice
  /\ \A p \in Protocols : \A id \in MessageIds :
       ForwardPosted(p, id) ~>
         \/ Transmitted(p, id)
         \/ Count(sendFailed[Other(p)], id) >= 1
         \/ Terminated

\* The first drain has run, and sent, a runnable that was dispatched after
\* the drain began.
C5_Witness ==
  /\ drainPhase = "first"
  /\ Len(ran) > dispatchedAtFirstDrain
  /\ pc[MainThread] = "ProcessMainThreadRunnables_next"
  /\ ran[Len(ran)].fn = "ForwardMessageAsync"
  /\ Transmitted("gParentProtocol", ran[Len(ran)].msg.id)

\* C6: a message ForwardMessageAsync transmits is, in type, routing id and
\* payload (and origin marker), the message as the opposite endpoint
\* received it, whatever the local delivery did to the original.
C6_ForwardedUnchanged ==
  \A p \in Protocols : \A i \in DOMAIN transmitted[p] :
    transmitted[p][i].via = "async" =>
      /\ transmitted[p][i].of \in DOMAIN received[Other(p)]
      /\ transmitted[p][i].msg = received[Other(p)][transmitted[p][i].of].msg

\* A message that was delivered locally (and consumed there) has been
\* transmitted to the recording process.
C6_Witness ==
  \E i \in DOMAIN transmitted["gParentProtocol"], j \in DOMAIN delivered :
    /\ transmitted["gParentProtocol"][i].via = "async"
    /\ delivered[j].msg.id = transmitted["gParentProtocol"][i].of

\* C7: the reply a completed HandleSyncMessage returns is the peer's reply
\* to the synchronous message that was received, and on return both
\* mSyncMessage and mSyncMessageReply are null.
C7_ReplyAnswersReceivedMessage ==
  \A i \in DOMAIN syncDone :
    /\ syncDone[i].aReply = PeerReply(syncDone[i].msg)
    /\ syncDone[i].syncMessageLeft = NullMessage
    /\ syncDone[i].replyLeft = NullMessage

\* C8 as stated: when the Send/Call of MaybeSendSyncMessage fails for a
\* message gParentProtocol (the worker-facing endpoint) received, shutdown is
\* begun and the process does not abort.
C8_WorkerSideFailureBeginsShutdown ==
  \A i \in DOMAIN syncFailures :
    syncFailures[i].protocol = "gParentProtocol" =>
      syncFailures[i].outcome = "BeginShutdown" /\ status # "crashed"

\* C8 as amended: when the Send/Call of MaybeSendSyncMessage fails for a
\* message gParentProtocol (the worker-facing endpoint) received, the release
\* assertion mSide == ChildSide aborts the process and no shutdown is begun
\* by it; the failure begins shutdown, without the assertion failing, only
\* for a message gChildProtocol (the UI-facing endpoint) received.
C8_WorkerSideFailureAborts ==
  \A i \in DOMAIN syncFailures :
    IF syncFailures[i].protocol = "gParentProtocol"
    THEN syncFailures[i].outcome = "abort" /\ status = "crashed"
    ELSE syncFailures[i].outcome = "BeginShutdown" /\ shutdownTriggers >= 1

\* The Send/Call failed for a message gParentProtocol received.
C8_Witness ==
  \E i \in DOMAIN syncFailures : syncFailures[i].protocol = "gParentProtocol"

\* The forwarding thread is blocked in gMonitor->Wait() for the reply.
C9_Witness ==
  /\ pc[ForwardingThread] = "HandleSyncMessage_wait"
  /\ ForwardingThread \in monitorWaiters

\* The messages gChildProtocol received with gParentProtocol attached that
\* the dual-delivery branch hands to the local actor.
DualDelivered(r) ==
  /\ r.kind = "async"
  /\ r.msg.type \in DualDeliveryTypes
  /\ r.msg.type \in PBrowserRange => r.msg.routing_id \in ManagedPBrowserChild

ForwardsPending(id) ==
  Cardinality({ i \in DOMAIN forwardingLoop :
                  /\ forwardingLoop[i].fn = "ForwardMessageAsync"
                  /\ forwardingLoop[i].msg.id = id })

LocalDeliveries(id) ==
  Cardinality({ i \in DOMAIN delivered : delivered[i].msg.id = id })

UnmanagedBrowser(r) ==
  /\ r.kind = "async"
  /\ r.msg.type \in DualDeliveryTypes
  /\ r.msg.type \in PBrowserRange
  /\ r.msg.routing_id \notin ManagedPBrowserChild

\* The ForwardMessageAsync runnables posted for message id of gChildProtocol
\* are pending on the forwarding loop or have run, each sending once or
\* failing once.
ForwardsOf(id) ==
  ForwardsPending(id)
    + Cardinality(TransmissionsOf("gParentProtocol", id))
    + Count(sendFailed["gParentProtocol"], id)

C12_CloseAndErrorBeginShutdown ==
  \A i \in DOMAIN channelEvents :
    LET e == channelEvents[i]
    IN  (e.event = "error" \/ e.protocol = "gParentProtocol") =>
          e.outcome = "BeginShutdown" /\ status # "crashed"

\* C12 as amended: OnChannelError on either endpoint and OnChannelClose on
\* gChildProtocol (the UI-facing endpoint) post a Shutdown task to the main
\* thread; OnChannelClose on gParentProtocol fails the release assertion
\* mSide == ChildSide, and the process aborts with no Shutdown task posted
\* by it.
C12_CloseOnWorkerSideAborts ==
  \A i \in DOMAIN channelEvents :
    LET e == channelEvents[i]
    IN  IF e.event = "close" /\ e.protocol = "gParentProtocol"
        THEN /\ e.outcome = "abort"
             /\ status = "crashed"
             /\ shutdownTriggers < Len(channelEvents) + Len(syncFailures)
                                     + Len(sendFailed["gParentProtocol"])
        ELSE /\ e.outcome = "BeginShutdown"
             /\ shutdownTriggers >= 1
             /\ Running => ShutdownTasksPosted >= 1

\* The channel to the recording process was reported closed.
C12_Witness ==
  \E i \in DOMAIN channelEvents :
    /\ channelEvents[i].event = "close"
    /\ channelEvents[i].protocol = "gParentProtocol"

\* A step in which the Send of ForwardMessageAsync failed on p's channel.
AsyncSendFails(p) == Len(sendFailed'[p]) = Len(sendFailed[p]) + 1

\* The step called BeginShutdown and did not abort.
BeginsShutdownOnly ==
  /\ mainLoop' = Append(mainLoop, "Shutdown")
  /\ shutdownTriggers' = shutdownTriggers + 1
  /\ status' = "running"

\* The step aborted the process and called no BeginShutdown.
AbortsOnly ==
  /\ status' = "crashed"
  /\ UNCHANGED << mainLoop, shutdownTriggers >>

\* C13 as stated: a failed Send of ForwardMessageAsync on gChildProtocol's
\* channel (to the UI process) begins shutdown without aborting, and one on
\* gParentProtocol's channel (to the recording process) aborts.
C13_UISendFailureBeginsShutdown ==
  [][ /\ AsyncSendFails("gChildProtocol") => BeginsShutdownOnly
      /\ AsyncSendFails("gParentProtocol") => AbortsOnly ]_vars

\* C13 as amended: a failed Send of ForwardMessageAsync on gParentProtocol's
\* channel (the forwarding target is the worker-facing endpoint) posts a
\* Shutdown task and does not abort; one on gChildProtocol's channel (the
\* forwarding target is the UI-facing endpoint) fails the release assertion
\* aProtocol->mSide == ParentSide and aborts at once, with no Shutdown task
\* posted.
C13_WorkerSendFailureBeginsShutdown ==
  [][ /\ AsyncSendFails("gParentProtocol") => BeginsShutdownOnly
      /\ AsyncSendFails("gChildProtocol") => AbortsOnly ]_vars

\* A Send to the recording process has failed, and later a Send to the UI
\* process.
C13_Witness ==
  /\ sendFailed["gParentProtocol"] # << >>
  /\ sendFailed["gChildProtocol"] # << >>

\* The ForwardMessageAsync runnables given to DispatchToMainThread for the
\* message m of gParentProtocol, to be sent on gChildProtocol's channel.
ForwardsDispatched(m) ==
  Cardinality({ i \in DOMAIN dispatched :
                  /\ dispatched[i].fn = "ForwardMessageAsync"
                  /\ dispatched[i].protocol = "gChildProtocol"
                  /\ dispatched[i].msg = m })

\* C14: no message gParentProtocol receives is delivered locally, whatever
\* its type, routing id and origin marker, and for each one ForwardMessageAsync
\* to gChildProtocol is dispatched to the main thread, with the message as
\* received.
C14_WorkerMessagesForwardOnly ==
  /\ \A i \in DOMAIN delivered : delivered[i].side # ParentSide
  /\ \A i \in DOMAIN received["gParentProtocol"] :
       LET r == received["gParentProtocol"][i]
       IN  r.kind = "async" =>
             /\ Count(forwardPosted["gParentProtocol"], r.msg.id) = 1
             /\ ForwardsDispatched(r.msg) = 1

\* gParentProtocol has received a message of a dual-delivery type that
\* names a browser managed locally and carries the origin marker, and one of
\* a local-only type; both were sent to the UI process.
C14_Witness ==
  /\ Len(transmitted["gChildProtocol"]) = 2
  /\ \E i, j \in DOMAIN transmitted["gChildProtocol"] :
       /\ transmitted["gChildProtocol"][i].msg.type \in LocalOnlyTypes
       /\ transmitted["gChildProtocol"][j].msg.type \in DualDeliveryTypes
       /\ transmitted["gChildProtocol"][j].msg.fromMiddleman
       /\ transmitted["gChildProtocol"][j].msg.routing_id \in ManagedPBrowserChild
  /\ delivered = << >>

\* C15: no message gChildProtocol receives with the origin marker set
\* (MessageOriginatesFromMiddleman) is forwarded to the recording process,
\* whatever its type and routing id.
C15_OriginMarkedNeverForwarded ==
  \A i \in DOMAIN received["gChildProtocol"] :
    LET r == received["gChildProtocol"][i]
    IN  r.msg.fromMiddleman =>
          /\ Count(forwardPosted["gChildProtocol"], r.msg.id) = 0
          /\ ForwardsOf(r.msg.id) = 0

\* The local deliveries of gChildProtocol's message id made to the actor
\* tree who.
LocalDeliveriesTo(id, who) ==
  Cardinality({ i \in DOMAIN delivered :
                  delivered[i].msg.id = id /\ delivered[i].to = who })

\* C16: a message gChildProtocol receives whose type is local-only
\* (PContent InitRendering, Shutdown) or in the PCompositorBridge range is
\* delivered once, to ContentChild or to CompositorBridgeChild, and no
\* forwarding of it is posted.
C16_LocalOnlyDeliveredNotForwarded ==
  \A i \in DOMAIN received["gChildProtocol"] :
    LET r == received["gChildProtocol"][i]
    IN  ( /\ r.kind \in {"async", "unattached"}
          /\ r.msg.type \in LocalOnlyTypes \cup PCompositorBridgeRange ) =>
          /\ LocalDeliveries(r.msg.id) = 1
          /\ LocalDeliveriesTo(r.msg.id,
                               IF r.msg.type \in LocalOnlyTypes
                               THEN "ContentChild"
                               ELSE "CompositorBridgeChild") = 1
          /\ Count(forwardPosted["gChildProtocol"], r.msg.id) = 0
          /\ ForwardsOf(r.msg.id) = 0

\* With the recording process attached, gChildProtocol has received a
\* local-only message and a PCompositorBridge message.
C16_Witness ==
  \E i, j \in DOMAIN received["gChildProtocol"] :
    /\ received["gChildProtocol"][i].kind = "async"
    /\ received["gChildProtocol"][j].kind = "async"
    /\ received["gChildProtocol"][i].msg.type \in LocalOnlyTypes
    /\ received["gChildProtocol"][j].msg.type \in PCompositorBridgeRange
    /\ Len(delivered) = 2

\* A step in which endpoint p received an asynchronous message without
\* mOppositeMessageLoop.
ReceivesUnattached(p) ==
  /\ Len(received'[p]) = Len(received[p]) + 1
  /\ received'[p][Len(received'[p])].kind = "unattached"

\* The state after the local delivery of message m by HandleMessageInMiddleman,
\* and nothing else.
OnlyLocalDelivery(m) ==
  /\ delivered' =
       IF HandleMessageInMiddleman(ChildSide, m).deliveredTo = NULL
       THEN delivered
       ELSE Append(delivered,
                   [msg |-> m,
                    to |-> HandleMessageInMiddleman(ChildSide, m).deliveredTo,
                    side |-> ChildSide])
  /\ status' = "running"
  /\ UNCHANGED << forwardingLoop, forwardPosted, gMainThreadRunnables,
                  mainLoop, dispatched, transmitted, pc >>

InInitializeForwarding ==
  pc[MainThread] \in {"InitializeForwarding", "InitializeForwarding_wait"}

\* Both endpoints exist, each is the other's mOpposite and each has its
\* mOppositeMessageLoop.
EndpointsPaired ==
  /\ gChildProtocol = "gChildProtocol"
  /\ gParentProtocol = "gParentProtocol"
  /\ mOpposite["gChildProtocol"] = "gParentProtocol"
  /\ mOpposite["gParentProtocol"] = "gChildProtocol"
  /\ mOppositeMessageLoop["gChildProtocol"] = ForwardingThread
  /\ mOppositeMessageLoop["gParentProtocol"] = MainThread

\* C18: in a recording middleman InitializeForwarding has returned only if
\* the forwarding thread has opened gParentProtocol's channel and set
\* gParentProtocolOpened, the two endpoints being paired by then; the main
\* thread is never left in gMonitor->Wait() after the notification, and,
\* both threads being scheduled fairly, InitializeForwarding returns unless
\* the process terminates first.
C18_InitializeForwardingHandshake ==
  /\ []( (processKind = "MiddlemanRecording" /\ ~InInitializeForwarding) =>
           (parentChannelOpen /\ gParentProtocolOpened /\ EndpointsPaired) )
  /\ []( (InInitializeForwarding /\ MainThread \in monitorWaiters) =>
           ~gParentProtocolOpened )
  /\ (InInitializeForwarding ~> (~InInitializeForwarding \/ Terminated))

\* In a recording middleman InitializeForwarding has returned and the
\* forwarding thread runs its message loop.
C18_Witness ==
  /\ processKind = "MiddlemanRecording"
  /\ pc[MainThread] = "idle"
  /\ pc[ForwardingThread] = "idle"
  /\ budget = MaxLiveMsgs

\* Both of p's slots hold a message.
BothSlotsSet(p) ==
  mSyncMessage[p] # NullMessage /\ mSyncMessageReply[p] # NullMessage

\* C19 as stated: in every state at most one of mSyncMessage and
\* mSyncMessageReply of an endpoint is set.
C19_AtMostOneSlotSet == \A p \in Protocols : ~BothSlotsSet(p)

\* C19 as amended: whenever gMonitor is free at most one of mSyncMessage and
\* mSyncMessageReply of an endpoint is set; both are set only inside
\* MaybeSendSyncMessage, which holds gMonitor from the allocation of the
\* reply to the reset of mSyncMessage.
C19_AtMostOneSlotSetOutsideMonitor ==
  \A p \in Protocols :
    BothSlotsSet(p) =>
      /\ monitorOwner # NULL
      /\ pc[monitorOwner] \in {"MaybeSendSyncMessage_send", "MaybeSendSyncMessage_finish"}
      /\ p = SyncProtocolOf(monitorOwner)

\* MaybeSendSyncMessage has returned, leaving the reply for the thread in
\* HandleSyncMessage, which has not taken it yet.
C19_Witness ==
  /\ monitorOwner = NULL
  /\ mSyncMessageReply["gParentProtocol"] # NullMessage
  /\ mSyncMessage["gParentProtocol"] = NullMessage
  /\ pc[ForwardingThread] = "HandleSyncMessage_wait"

\* C20: a thread about to run MaybeSendSyncMessage on an endpoint whose
\* mSyncMessage is set finds the endpoint's mSyncMessageReply null, so the
\* release assertion on the reply slot does not fail, whether the call comes
\* from the posted StaticMaybeSendSyncMessage or from
\* MaybeHandleForwardedMessages.
C20_ReplySlotEmptyAtSend ==
  \A t \in Threads :
    ( /\ pc[t] = "MaybeSendSyncMessage"
      /\ mSyncMessage[SyncProtocolOf(t)] # NullMessage ) =>
      mSyncMessageReply[SyncProtocolOf(t)] = NullMessage

\* After a completed exchange, the posted StaticMaybeSendSyncMessage is about
\* to run on the main thread and finds the message of a second exchange.
C20_Witness ==
  /\ pc[MainThread] = "MaybeSendSyncMessage"
  /\ syncReturn = "ProcessMainThreadRunnables_next"
  /\ mSyncMessage["gParentProtocol"] # NullMessage
  /\ mSyncMessageReply["gParentProtocol"] = NullMessage
  /\ Len(syncDone) >= 1

\* The ProcessMainThreadRunnables tasks posted to the main thread's loop
\* that have not started.
WakeupsPending == Count(mainLoop, "ProcessMainThreadRunnables")

\* The main thread is inside ProcessMainThreadRunnables (or inside a
\* runnable the drain runs).
InProcessMainThreadRunnables ==
  \/ pc[MainThread] \in { "ProcessMainThreadRunnables",
                          "ProcessMainThreadRunnables_run",
                          "ProcessMainThreadRunnables_next" }
  \/ /\ pc[MainThread] \in { "MaybeSendSyncMessage", "MaybeSendSyncMessage_send",
                             "MaybeSendSyncMessage_finish" }
     /\ syncReturn = "ProcessMainThreadRunnables_next"

\* C21: gPostedProcessMainThreadRunnables is true exactly when a posted
\* ProcessMainThreadRunnables task is outstanding (posted and not finished),
\* and at most one such task is outstanding, also when
\* MaybeHandleForwardedMessages drains the queue itself.
C21_PostedFlagMatchesWakeup ==
  /\ WakeupsPending >= 1 => gPostedProcessMainThreadRunnables
  /\ gPostedProcessMainThreadRunnables =>
       (WakeupsPending >= 1 \/ InProcessMainThreadRunnables)
  /\ WakeupsPending <= 1

\* The synchronous-call slot of endpoint p.
SyncSlot(p) == << mSyncMessage[p], mSyncMessageReply[p], mSyncMessageIsCall[p] >>

\* Thread t takes a step with gMonitor held: it owns gMonitor before the
\* step, or has taken it in the step.
StepsWithMonitor(t) ==
  /\ pc'[t] # pc[t]
  /\ (monitorOwner = t \/ monitorOwner' = t)

\* C22: every step that writes an endpoint's synchronous-call slot
\* (mSyncMessage, mSyncMessageReply, mSyncMessageIsCall) is taken by a
\* thread that holds gMonitor.
C22_SlotWrittenUnderMonitor ==
  [][ \A p \in { "gChildProtocol", "gParentProtocol" } :
        SyncSlot(p)' # SyncSlot(p) => \E t \in Threads : StepsWithMonitor(t) ]_vars

\* The synchronous exchanges started on endpoint p: the synchronous and
\* call messages HandleSyncMessage has received.
SyncExchangesStarted(p) ==
  { i \in DOMAIN received[p] : received[p][i].kind \in SyncKinds }

\* The synchronous messages MaybeSendSyncMessage has transmitted on p's
\* channel.
SyncTransmissions(p) ==
  { i \in DOMAIN transmitted[p] : transmitted[p][i].via = "sync" }

\* C23: once BeginShutdown has been called, no synchronous exchange is
\* started and no synchronous message is transmitted on either endpoint.
C23_NoSyncExchangeAfterShutdown ==
  [][ shutdownTriggers >= 1 =>
        \A p \in Protocols :
          /\ SyncExchangesStarted(p)' = SyncExchangesStarted(p)
          /\ SyncTransmissions(p)' = SyncTransmissions(p) ]_vars

\* The runnables run so far are the first ones dispatched, in the order of
\* their dispatch.
RanInDispatchOrder ==
  /\ Len(ran) <= Len(dispatched)
  /\ \A i \in DOMAIN ran : ran[i] = dispatched[i]

\* A step in which ProcessMainThreadRunnables returns.
DrainReturns ==
  /\ pc[MainThread] \in { "ProcessMainThreadRunnables",
                          "ProcessMainThreadRunnables_next" }
  /\ pc'[MainThread] = "idle"

\* C24 as stated: ProcessMainThreadRunnables runs the runnables in the
\* order of their dispatch, and a pass (here the first) runs none that was
\* dispatched after the pass began.
C24_DrainRunsSnapshotInOrder ==
  /\ RanInDispatchOrder
  /\ drainPhase = "first" => Len(ran) <= dispatchedAtFirstDrain

\* C24 amended: ProcessMainThreadRunnables runs the runnables in the order
\* of their dispatch, and a pass runs every runnable dispatched before its
\* loop's last test, those dispatched while the pass was in progress
\* included: when it returns, every runnable dispatched so far has run.
C24_DrainRunsAllInOrder ==
  [][ /\ RanInDispatchOrder'
      /\ DrainReturns => ran' = dispatched' ]_vars

\* The first pass has run a runnable that was dispatched after the pass
\* began.
C24_Witness ==
  /\ drainPhase = "first"
  /\ pc[MainThread] = "ProcessMainThreadRunnables_next"
  /\ Len(ran) > dispatchedAtFirstDrain

\* The synchronous transmissions made for exchange id of endpoint p (on
\* the opposite endpoint's channel).
SyncTransmissionsOf(p, id) ==
  { i \in SyncTransmissions(Other(p)) : transmitted[Other(p)][i].of = id }

\* C25: MaybeSendSyncMessage transmits no synchronous message more than
\* once per exchange, whichever of its triggers (the posted
\* StaticMaybeSendSyncMessage runnable, the call in
\* MaybeHandleForwardedMessages) runs first, and an exchange that has
\* returned has been transmitted exactly once.
C25_SyncTransmittedOncePerExchange ==
  /\ \A p \in Protocols : \A i \in SyncExchangesStarted(p) :
       Cardinality(SyncTransmissionsOf(p, received[p][i].msg.id)) <= 1
  /\ \A i \in DOMAIN syncDone :
       Cardinality(SyncTransmissionsOf("gParentProtocol", syncDone[i].msg.id)) = 1

\* The call in MaybeHandleForwardedMessages has transmitted the only
\* synchronous message, and the StaticMaybeSendSyncMessage runnable posted
\* for it, the first runnable run, is about to find no pending message.
C25_Witness ==
  /\ pc[MainThread] = "MaybeSendSyncMessage"
  /\ syncReturn = "ProcessMainThreadRunnables_next"
  /\ Len(ran) = 1
  /\ Len(received["gParentProtocol"]) = 1
  /\ mSyncMessage["gParentProtocol"] = NullMessage
  /\ Cardinality(SyncTransmissionsOf("gParentProtocol", 1)) = 1

\* C26: every synchronous transmission carries the complete message of
\* the exchange it was made for, as HandleSyncMessage received it, and is
\* a Call exactly when that message arrived by OnCallReceived.
C26_SyncTransmitsReceivedMessageAndMode ==
  \A p \in Protocols : \A i \in SyncTransmissions(Other(p)) :
    LET t == transmitted[Other(p)][i]
    IN  /\ t.of \in SyncExchangesStarted(p)
        /\ t.msg = received[p][t.of].msg
        /\ t.isCall = (received[p][t.of].kind = "call")

\* C27: once gChildProtocol (mSide == ChildSide) has received a synchronous
\* or call message, its HandleSyncMessage never returns a reply: the
\* process has crashed or the main thread stands before MOZ_CRASH("NYI");
\* every exchange that has returned a reply is one of gParentProtocol.
C27_ChildSideSyncNeverReplies ==
  /\ SyncExchangesStarted("gChildProtocol") # {} =>
       (status = "crashed" \/ pc[MainThread] = "HandleSyncMessage_NYI")
  /\ \A i \in DOMAIN syncDone :
       \E j \in SyncExchangesStarted("gParentProtocol") :
         received["gParentProtocol"][j].msg = syncDone[i].msg

\* gChildProtocol's synchronous message has been transmitted by the posted
\* task and the reply is in the slot, and HandleSyncMessage has ended in
\* MOZ_CRASH("NYI").
C27_Witness ==
  /\ status = "crashed"
  /\ pc[MainThread] = "HandleSyncMessage_NYI"
  /\ SyncExchangesStarted("gChildProtocol") # {}
  /\ mSyncMessageReply["gChildProtocol"] # NullMessage

====
